---- MODULE Spec2Model ----
(***************************************************************************)
(* Model of the spoofax-releng command line (metaborg/releng/cmd.py).      *)
(*                                                                         *)
(* A process runs one subcommand: pc goes from "start" to "exited" and     *)
(* `last` records what the subcommand's main() did: the lines it printed,  *)
(* the interactive prompts it called (with the answer each one returned),  *)
(* the calls it made into the fleet / version / build modules (with the    *)
(* per-repository outcomes of each call) and its exit status.              *)
(*                                                                         *)
(* Three specifications share the variables:                               *)
(*   Spec         every subcommand but the three below, and the runs that  *)
(*                end in MetaborgReleng.main (no subcommand, no directory) *)
(*   SpecChanged  the qualifier / changed commands over a persisted record *)
(*   SpecBuild    the build command over a dependency graph                *)
(* Spec and SpecBuild follow one process from every initial state: these   *)
(* commands keep nothing between two runs. SpecChanged follows successive  *)
(* runs, which share the persisted qualifier record.                       *)
(***************************************************************************)
EXTENDS Integers, Sequences, FiniteSets, TLC

VARIABLES
  pc,        \* "start" before main() runs, "exited" after it returned
  last,      \* what the last main() did (NoCall before the first one)
  fleet,     \* the repositories of the fleet, in declaration order
  headTime,  \* repository -> author date of its HEAD commit
  branch,    \* current branch of the root repository
  record,    \* content of the persisted qualifier file (NoRecord: absent)
  history,   \* results of the repo_changed calls since the last fleet mutation
  deps,      \* build target -> set of its direct dependencies
  snapshot   \* build targets whose declared version is a snapshot version

vars == <<pc, last, fleet, headTime, branch, record, history, deps, snapshot>>

----------------------------------------------------------------------------
(* Bounds *)

NumRepos == 3

MaxTime == 2

MaxCalls == 3

NumTargets == 3

MaxPathLen == 2

----------------------------------------------------------------------------
(* Values *)

Repos == 1..NumRepos

NoCall == [cmd |-> "none", yes |-> FALSE, flags |-> {}, failing |-> {},
           out |-> <<>>, prompts |-> <<>>, ops |-> <<>>, exit |-> 0]

\* --depth: absent (None) or one integer
NoDepth == <<>>

Depths == {NoDepth, <<1>>}

RemoteTypeSSH == "SSH"

RemoteTypeHTTP == "HTTP"

\* Sequences over S without repetition, of every length up to Cardinality(S).
RECURSIVE Orderings(_)
Orderings(S) ==
  IF S = {} THEN {<<>>}
  ELSE {<<>>} \cup UNION {{<<x>> \o t : t \in Orderings(S \ {x})} : x \in S}

Fleets == Orderings(Repos)

Range(s) == {s[i] : i \in 1..Len(s)}

----------------------------------------------------------------------------
(* The collaborators main() calls *)

\* Apply(fleet, operation, params): the operation is attempted on every
\* repository in fleet order; a failure is recorded and the next repository
\* is attempted. `failing` is the set of repositories whose backend fails.
\* (FleetApplyStopAtFailure is the intolerant variant, which gives up at
\* the first failing repository: C10 has to tell the two apart.)
RECURSIVE FleetApplyStopAtFailure(_, _)
FleetApplyStopAtFailure(fl, failing) ==
  IF fl = <<>> THEN <<>>
  ELSE IF Head(fl) \in failing THEN <<[repo |-> Head(fl), ok |-> FALSE]>>
  ELSE <<[repo |-> Head(fl), ok |-> TRUE]>> \o FleetApplyStopAtFailure(Tail(fl), failing)

FleetApply(fl, failing) ==
  [i \in 1..Len(fl) |-> [repo |-> fl[i], ok |-> fl[i] \notin failing]]

\* One call into metaborg.util.git / metaborg.releng.versions / maven.
FleetCall(op, params, fl, failing) ==
  [op |-> op, params |-> params, results |-> FleetApply(fl, failing)]

PlainCall(op, params) ==
  [op |-> op, params |-> params, results |-> <<>>]

\* One call of YesNo / YesNoTwice / YesNoTrice and the answer it returned.
Prompt(kind, answer) == [kind |-> kind, answer |-> answer]

\* What a main() did.
Did(out, prompts, ops, exit) ==
  [out |-> out, prompts |-> prompts, ops |-> ops, exit |-> exit]

----------------------------------------------------------------------------
(* The subcommands' main(), as functions of the switches, of the answer   *)
(* the prompt returns when it is called, and of the repositories whose     *)
(* backend fails.                                                          *)

\* update
UpdateMain(depth, fl, failing) ==
  Did(<<"Updating all submodules">>, <<>>,
      <<FleetCall("UpdateAll", <<depth>>, fl, failing)>>, 0)

\* set-remote
SetRemoteMain(toSsh, toHttp, fl, failing) ==
  IF ~toSsh /\ ~toHttp
  THEN Did(<<"Must choose between SSH (-s) or HTTP (-h)">>, <<>>, <<>>, 1)
  ELSE LET toType == IF toSsh THEN RemoteTypeSSH ELSE RemoteTypeHTTP
       IN Did(<<"Setting remotes for all submodules">>, <<>>,
              <<FleetCall("SetRemoteAll", <<toType>>, fl, failing)>>, 0)

\* clean-update
\* (CleanUpdateStepsCleanFirst cleans before it resets: C13 has to tell the
\* two apart.)
CleanUpdateStepsCleanFirst(depth, fl, failing) ==
  << FleetCall("CheckoutAll", <<>>, fl, failing),
     FleetCall("CleanAll", <<>>, fl, failing),
     FleetCall("CheckoutAll", <<>>, fl, failing),
     FleetCall("ResetAll", <<TRUE>>, fl, failing),
     FleetCall("UpdateAll", <<depth>>, fl, failing) >>

CleanUpdateSteps(depth, fl, failing) ==
  << FleetCall("CheckoutAll", <<>>, fl, failing),
     FleetCall("ResetAll", <<TRUE>>, fl, failing),
     FleetCall("CheckoutAll", <<>>, fl, failing),
     FleetCall("CleanAll", <<>>, fl, failing),
     FleetCall("UpdateAll", <<depth>>, fl, failing) >>

CleanUpdateWarning ==
  "WARNING: This will DELETE UNCOMMITED CHANGES, DELETE UNPUSHED COMMITS, and DELETE UNTRACKED FILES. Do you want to continue?"

\* CleanUpdateMain without `return 1`: C1 has to tell the two apart.
CleanUpdateMainNoGate(confirmPrompt, depth, answer, fl, failing) ==
  IF ~confirmPrompt
  THEN Did(<<CleanUpdateWarning, "Resetting, cleaning, and updating all submodules">>,
           <<Prompt("YesNoTrice", answer)>>,
           CleanUpdateSteps(depth, fl, failing), 0)
  ELSE Did(<<"Resetting, cleaning, and updating all submodules">>, <<>>,
           CleanUpdateSteps(depth, fl, failing), 0)

CleanUpdateMain(confirmPrompt, depth, answer, fl, failing) ==
  IF ~confirmPrompt
  THEN IF ~answer
       THEN Did(<<CleanUpdateWarning>>, <<Prompt("YesNoTrice", answer)>>, <<>>, 1)
       ELSE Did(<<CleanUpdateWarning, "Resetting, cleaning, and updating all submodules">>,
                <<Prompt("YesNoTrice", answer)>>,
                CleanUpdateSteps(depth, fl, failing), 0)
  ELSE Did(<<"Resetting, cleaning, and updating all submodules">>, <<>>,
           CleanUpdateSteps(depth, fl, failing), 0)

\* track
TrackMain(fl, failing) ==
  Did(<<"Setting tracking branch for each submodule">>, <<>>,
      <<FleetCall("TrackAll", <<>>, fl, failing)>>, 0)

\* The shape shared by merge, tag, push, checkout and clean: print the
\* banner, and unless --yes was given print the warning and ask; a no
\* returns 1 before the operation, otherwise the operation runs once.
\* (GatedProceedsOnNo lacks the `return 1`: C2 has to tell the two apart.)
GatedProceedsOnNo(banner, warning, promptKind, confirmPrompt, answer, call) ==
  IF ~confirmPrompt
  THEN Did(<<banner, warning>>, <<Prompt(promptKind, answer)>>, <<call>>, 0)
  ELSE Did(<<banner>>, <<>>, <<call>>, 0)

Gated(banner, warning, promptKind, confirmPrompt, answer, call) ==
  IF ~confirmPrompt
  THEN IF ~answer
       THEN Did(<<banner, warning>>, <<Prompt(promptKind, answer)>>, <<>>, 1)
       ELSE Did(<<banner, warning>>, <<Prompt(promptKind, answer)>>, <<call>>, 0)
  ELSE Did(<<banner>>, <<>>, <<call>>, 0)

\* merge
MergeMain(confirmPrompt, mergeBranch, answer, fl, failing) ==
  Gated("Merging branch into current branch for each submodule",
        "This will merge branches, changing the state of your repositories, do you want to continue?",
        "YesNo", confirmPrompt, answer,
        FleetCall("MergeAll", <<mergeBranch>>, fl, failing))

\* tag
TagMain(confirmPrompt, tag, description, answer, fl, failing) ==
  Gated("Creating a tag in each submodules",
        "This creates tags, changing the state of your repositories, do you want to continue?",
        "YesNo", confirmPrompt, answer,
        FleetCall("TagAll", <<tag, description>>, fl, failing))

\* push
PushMain(confirmPrompt, answer, fl, failing) ==
  Gated("Pushing current branch for each submodule",
        "This pushes commits to the remote repository, do you want to continue?",
        "YesNo", confirmPrompt, answer,
        FleetCall("PushAll", <<>>, fl, failing))

\* checkout
CheckoutMain(confirmPrompt, answer, fl, failing) ==
  Gated("Checking out correct branches for all submodules",
        "WARNING: This will get rid of detached heads, including any commits you have made to detached heads, do you want to continue?",
        "YesNo", confirmPrompt, answer,
        FleetCall("CheckoutAll", <<>>, fl, failing))

\* clean
CleanMain(confirmPrompt, answer, fl, failing) ==
  Gated("Cleaning all submodules",
        "WARNING: This will DELETE UNTRACKED FILES, do you want to continue?",
        "YesNoTwice", confirmPrompt, answer,
        FleetCall("CleanAll", <<>>, fl, failing))

\* reset
ResetMain(confirmPrompt, toRemote, answer, fl, failing) ==
  IF toRemote
  THEN Gated("Resetting all submodules",
             "WARNING: This will DELETE UNCOMMITED CHANGES and DELETE UNPUSHED COMMITS, do you want to continue?",
             "YesNoTrice", confirmPrompt, answer,
             FleetCall("ResetAll", <<toRemote>>, fl, failing))
  ELSE Gated("Resetting all submodules",
             "WARNING: This will DELETE UNCOMMITED CHANGES, do you want to continue?",
             "YesNoTwice", confirmPrompt, answer,
             FleetCall("ResetAll", <<toRemote>>, fl, failing))

\* set-versions
SetVersionsMain(confirmPrompt, dryRun, commit, fromVersion, toVersion, answer) ==
  LET call == PlainCall("SetVersions", <<fromVersion, toVersion, TRUE, dryRun, commit>>)
  IN IF confirmPrompt /\ ~dryRun
     THEN IF commit
          THEN Did(<<"WARNING: This will CHANGE and COMMIT pom.xml, MANIFEST.MF, and feature.xml files, do you want to continue?">>,
                   <<>>, <<call>>, 0)
          ELSE IF ~answer
               THEN Did(<<"WARNING: This will CHANGE pom.xml, MANIFEST.MF, and feature.xml files, do you want to continue?">>,
                        <<Prompt("YesNo", answer)>>, <<>>, 1)
               ELSE Did(<<"WARNING: This will CHANGE pom.xml, MANIFEST.MF, and feature.xml files, do you want to continue?">>,
                        <<Prompt("YesNo", answer)>>, <<call>>, 0)
     ELSE Did(<<>>, <<>>, <<call>>, 0)

\* -d/--destination of gen-mvn-settings: the default location or a given path
Destinations == {"defaultSettingsLocation", "settings.xml"}

\* '... already exists at {}, ...'.format(destination)
SettingsExistsMessage(destination) ==
  "Maven settings file already exists at " \o destination \o ", would you like to overwrite it?"

\* gen-mvn-settings; isFile: a file already exists at the destination
GenMvnSettingsMain(confirmPrompt, isFile, destination, noMetaborgSnapshots, noSpoofaxUpdateSite, answer) ==
  LET metaborgSnapshots == IF noMetaborgSnapshots THEN "None" ELSE "defaultSnapshots"
      spoofaxUpdateSite == IF noSpoofaxUpdateSite THEN "None" ELSE "defaultUpdateSite"
      call == PlainCall("generate", <<destination, "defaultReleases",
                                      metaborgSnapshots, spoofaxUpdateSite, "defaultMirror">>)
  IN IF ~confirmPrompt /\ isFile
     THEN IF ~answer
          THEN Did(<<"Generating Maven settings file", SettingsExistsMessage(destination)>>,
                   <<Prompt("YesNo", answer)>>, <<>>, 1)
          ELSE Did(<<"Generating Maven settings file", SettingsExistsMessage(destination)>>,
                   <<Prompt("YesNo", answer)>>, <<call>>, 0)
     ELSE Did(<<"Generating Maven settings file">>, <<>>, <<call>>, 0)

\* bootstrap
BootstrapMain(curVersion, curBaselineVersion) ==
  Did(<<"Performing interactive bootstrap">>, <<>>,
      <<PlainCall("Bootstrap", <<curVersion, curBaselineVersion>>)>>, 0)

\* gen-eclipse: the generator is constructed, then generate() is called
GenEclipseMain(destination, archive, addJre, archiveJreSeparately) ==
  Did(<<"Generating plain Eclipse instance">>, <<>>,
      <<PlainCall("MetaborgEclipseGenerator",
                  [workingDir |-> "working_tree_dir", destination |-> destination,
                   os |-> "None", arch |-> "None", spoofax |-> FALSE,
                   moreRepos |-> <<>>, moreIUs |-> <<>>, archive |-> archive]),
        PlainCall("generate",
                  [fixIni |-> TRUE, addJre |-> addJre,
                   archiveJreSeparately |-> archiveJreSeparately])>>, 0)

\* gen-spoofax; spoofaxRepo is "None" when --spoofax-repo is not given
GenSpoofaxMain(destination, spoofaxRepo, localSpoofax, noMeta, archive, addJre, archiveJreSeparately) ==
  Did(<<"Generating Eclipse instance for Spoofax users">>, <<>>,
      <<PlainCall("MetaborgEclipseGenerator",
                  [workingDir |-> "working_tree_dir", destination |-> destination,
                   os |-> "None", arch |-> "None", spoofax |-> TRUE,
                   spoofaxRepo |-> spoofaxRepo, spoofaxRepoLocal |-> localSpoofax,
                   langDev |-> ~noMeta, lwbDev |-> ~noMeta,
                   moreRepos |-> <<>>, moreIUs |-> <<>>, archive |-> archive]),
        PlainCall("generate",
                  [fixIni |-> TRUE, addJre |-> addJre,
                   archiveJreSeparately |-> archiveJreSeparately,
                   archivePrefix |-> "spoofax"])>>, 0)

\* gen-icons: main() ends without a return statement, the exit status is 0
GenIconsMain(destination, text) ==
  Did(<<"Done!">>, <<>>, <<PlainCall("GenerateIcons", <<destination, text>>)>>, 0)

\* MetaborgReleng.main, which runs before the nested subcommand's main():
\* without a subcommand it prints an error and the help and returns 1; with
\* one it checks that --repo is a directory (ExistingDirectory raises
\* ValueError otherwise) and opens it (Repo raises InvalidGitRepositoryError
\* when the directory is no git repository). raised: the exception that
\* ended the process, "None" when main returned.
MetaborgRelengMain(nested, isDirectory, isGitRepository) ==
  IF ~nested
  THEN [out |-> <<"Error: no command given">>, ops |-> <<PlainCall("help", <<>>)>>,
        raised |-> "None", exit |-> 1]
  ELSE IF ~isDirectory
       THEN [out |-> <<>>, ops |-> <<>>, raised |-> "ValueError", exit |-> 1]
       ELSE IF ~isGitRepository
            THEN [out |-> <<>>, ops |-> <<>>, raised |-> "InvalidGitRepositoryError",
                  exit |-> 1]
            ELSE [out |-> <<>>, ops |-> <<>>, raised |-> "None", exit |-> 0]

----------------------------------------------------------------------------
(* The process: MetaborgReleng.main opens the repository, then the nested  *)
(* subcommand's main() runs once and its return value is the exit status.  *)
(* Ran is the run of a nested main() after MetaborgReleng.main returned 0; *)
(* the runs that MetaborgReleng.main ends itself are the actions           *)
(* MetaborgRelengNoCommand and MetaborgRelengNoRepository.                 *)

Ran(cmd, yes, flags, failing, did) ==
  /\ MetaborgRelengMain(TRUE, TRUE, TRUE).exit = 0
  /\ pc' = "exited"
  /\ last' = [cmd |-> cmd, yes |-> yes, flags |-> flags, failing |-> failing,
              out |-> did.out, prompts |-> did.prompts, ops |-> did.ops,
              exit |-> did.exit]
  /\ UNCHANGED <<fleet, headTime, branch, record, history, deps, snapshot>>

Flag(b, name) == IF b THEN {name} ELSE {}

MetaborgRelengUpdate ==
  /\ pc = "start"
  /\ \E depth \in Depths, failing \in SUBSET Range(fleet) :
       Ran("update", FALSE, {}, failing, UpdateMain(depth, fleet, failing))

MetaborgRelengSetRemote ==
  /\ pc = "start"
  /\ \E toType \in {"none", "ssh", "http"}, failing \in SUBSET Range(fleet) :
       Ran("set-remote", FALSE, {toType}, failing,
           SetRemoteMain(toType = "ssh", toType = "http", fleet, failing))

MetaborgRelengCleanUpdate ==
  /\ pc = "start"
  /\ \E yes \in BOOLEAN, depth \in Depths, answer \in BOOLEAN,
        failing \in SUBSET Range(fleet) :
       Ran("clean-update", yes, Flag(depth # NoDepth, "depth"), failing,
           CleanUpdateMain(yes, depth, answer, fleet, failing))

MetaborgRelengTrack ==
  /\ pc = "start"
  /\ \E failing \in SUBSET Range(fleet) :
       Ran("track", FALSE, {}, failing, TrackMain(fleet, failing))

MetaborgRelengMerge ==
  /\ pc = "start"
  /\ \E yes \in BOOLEAN, answer \in BOOLEAN, failing \in SUBSET Range(fleet) :
       Ran("merge", yes, {}, failing, MergeMain(yes, "release", answer, fleet, failing))

MetaborgRelengTag ==
  /\ pc = "start"
  /\ \E yes \in BOOLEAN, answer \in BOOLEAN, failing \in SUBSET Range(fleet) :
       Ran("tag", yes, {}, failing, TagMain(yes, "v1", "None", answer, fleet, failing))

MetaborgRelengPush ==
  /\ pc = "start"
  /\ \E yes \in BOOLEAN, answer \in BOOLEAN, failing \in SUBSET Range(fleet) :
       Ran("push", yes, {}, failing, PushMain(yes, answer, fleet, failing))

MetaborgRelengCheckout ==
  /\ pc = "start"
  /\ \E yes \in BOOLEAN, answer \in BOOLEAN, failing \in SUBSET Range(fleet) :
       Ran("checkout", yes, {}, failing, CheckoutMain(yes, answer, fleet, failing))

MetaborgRelengClean ==
  /\ pc = "start"
  /\ \E yes \in BOOLEAN, answer \in BOOLEAN, failing \in SUBSET Range(fleet) :
       Ran("clean", yes, {}, failing, CleanMain(yes, answer, fleet, failing))

MetaborgRelengReset ==
  /\ pc = "start"
  /\ \E yes \in BOOLEAN, toRemote \in BOOLEAN, answer \in BOOLEAN,
        failing \in SUBSET Range(fleet) :
       Ran("reset", yes, Flag(toRemote, "remote"), failing,
           ResetMain(yes, toRemote, answer, fleet, failing))

MetaborgRelengSetVersions ==
  /\ pc = "start"
  /\ \E yes \in BOOLEAN, dryRun \in BOOLEAN, commit \in BOOLEAN, answer \in BOOLEAN :
       Ran("set-versions", yes, Flag(dryRun, "dryrun") \cup Flag(commit, "commit"), {},
           SetVersionsMain(yes, dryRun, commit, "1.0.0-SNAPSHOT", "1.0.0", answer))

MetaborgRelengGenMvnSettings ==
  /\ pc = "start"
  /\ \E yes \in BOOLEAN, isFile \in BOOLEAN, destination \in Destinations,
        noSnapshots \in BOOLEAN, noUpdateSite \in BOOLEAN, answer \in BOOLEAN :
       Ran("gen-mvn-settings", yes,
           Flag(isFile, "destination-exists") \cup Flag(noSnapshots, "no-metaborg-snapshots")
             \cup Flag(noUpdateSite, "no-spoofax-update-site")
             \cup Flag(destination # "defaultSettingsLocation", "destination"), {},
           GenMvnSettingsMain(yes, isFile, destination, noSnapshots, noUpdateSite, answer))

MetaborgRelengBootstrap ==
  /\ pc = "start"
  /\ \E curVersion \in {"1.0.0", "1.1.0-SNAPSHOT"} :
       Ran("bootstrap", FALSE, {}, {}, BootstrapMain(curVersion, "1.0.0-baseline"))

\* --archive-jre-separately requires --archive and --add-jre
MetaborgRelengGenEclipse ==
  /\ pc = "start"
  /\ \E archive \in BOOLEAN, addJre \in BOOLEAN, separately \in BOOLEAN :
       /\ separately => (archive /\ addJre)
       /\ Ran("gen-eclipse", FALSE,
              Flag(archive, "archive") \cup Flag(addJre, "add-jre")
                \cup Flag(separately, "archive-jre-separately"), {},
              GenEclipseMain("eclipse", archive, addJre, separately))

\* --spoofax-repo and --local-spoofax-repo exclude each other
MetaborgRelengGenSpoofax ==
  /\ pc = "start"
  /\ \E spoofaxRepo \in {"None", "updatesite"}, localSpoofax \in BOOLEAN, noMeta \in BOOLEAN,
        archive \in BOOLEAN, addJre \in BOOLEAN, separately \in BOOLEAN :
       /\ separately => (archive /\ addJre)
       /\ ~(spoofaxRepo # "None" /\ localSpoofax)
       /\ Ran("gen-spoofax", FALSE,
              Flag(spoofaxRepo # "None", "spoofax-repo")
                \cup Flag(localSpoofax, "local-spoofax-repo") \cup Flag(noMeta, "nometa")
                \cup Flag(archive, "archive") \cup Flag(addJre, "add-jre")
                \cup Flag(separately, "archive-jre-separately"), {},
              GenSpoofaxMain("eclipse", spoofaxRepo, localSpoofax, noMeta,
                             archive, addJre, separately))

MetaborgRelengGenIcons ==
  /\ pc = "start"
  /\ \E text \in {"", "nightly"} :
       Ran("gen-icons", FALSE, Flag(text # "", "text"), {}, GenIconsMain("icons", text))

\* No subcommand on the command line: no nested main() runs.
MetaborgRelengNoCommand ==
  /\ pc = "start"
  /\ pc' = "exited"
  /\ LET did == MetaborgRelengMain(FALSE, TRUE, TRUE)
     IN last' = [cmd |-> "none", yes |-> FALSE, flags |-> {}, failing |-> {},
                 out |-> did.out, prompts |-> <<>>, ops |-> did.ops,
                 raised |-> did.raised, exit |-> did.exit]
  /\ UNCHANGED <<fleet, headTime, branch, record, history, deps, snapshot>>

\* The repository cannot be opened: the exception ends the process before
\* the nested main() of the subcommand on the command line runs. Without
\* --repo the repository is the current directory, which is a directory.
MetaborgRelengNoRepository ==
  /\ pc = "start"
  /\ pc' = "exited"
  /\ \E repoGiven \in BOOLEAN, isDirectory \in BOOLEAN, isGitRepository \in BOOLEAN :
       LET did == MetaborgRelengMain(TRUE, isDirectory, isGitRepository)
       IN /\ ~repoGiven => isDirectory
          /\ ~isDirectory => ~isGitRepository
          /\ did.exit # 0
          /\ last' = [cmd |-> "none", yes |-> FALSE, flags |-> Flag(repoGiven, "repo"),
                      failing |-> {}, out |-> did.out, prompts |-> <<>>, ops |-> did.ops,
                      raised |-> did.raised, exit |-> did.exit]
  /\ UNCHANGED <<fleet, headTime, branch, record, history, deps, snapshot>>

\* Directories, as the sequences of their path components below the root.
PathNames == {"releng", "deploy"}

RECURSIVE PathsUpTo(_)
PathsUpTo(n) ==
  IF n = 0 THEN {<<>>}
  ELSE LET shorter == PathsUpTo(n - 1)
       IN shorter \cup {Append(q, c) : q \in shorter, c \in PathNames}

Paths == PathsUpTo(MaxPathLen)

\* CommonPrefix([a, b]): the directory levels the two paths share from the
\* root on, up to the first level where they differ.
RECURSIVE CommonPrefix(_, _)
CommonPrefix(a, b) ==
  IF a = <<>> \/ b = <<>> \/ Head(a) # Head(b) THEN <<>>
  ELSE <<Head(a)>> \o CommonPrefix(Tail(a), Tail(b))

\* release
ReleaseCall(releaseBranch, developBranch, curDevelopVersion, nextReleaseVersion, nextDevelopVersion) ==
  PlainCall("Release", <<releaseBranch, developBranch, curDevelopVersion,
                         nextReleaseVersion, nextDevelopVersion>>)

\* (ReleaseMainNoCheck lacks the refusal: C11 has to tell the two apart.)
ReleaseMainNoCheck(repoDir, scriptDir, call) ==
  Did(<<"Performing interactive release">>, <<>>, <<call>>, 0)

ReleaseMain(repoDir, scriptDir, call) ==
  IF CommonPrefix(repoDir, scriptDir) = repoDir
  THEN Did(<<"Performing interactive release",
             "Cannot perform release on the same repository this script is contained in, please set another repository using the -r/--repo switch.">>,
           <<>>, <<>>, 1)
  ELSE Did(<<"Performing interactive release">>, <<>>, <<call>>, 0)

MetaborgRelengRelease ==
  /\ pc = "start"
  /\ MetaborgRelengMain(TRUE, TRUE, TRUE).exit = 0
  /\ pc' = "exited"
  /\ \E repoDir \in Paths, scriptDir \in Paths :
       LET did == ReleaseMain(repoDir, scriptDir,
                              ReleaseCall("master", "develop", "1.0.0-SNAPSHOT",
                                          "1.0.0", "1.1.0-SNAPSHOT"))
       IN last' = [cmd |-> "release", yes |-> FALSE, flags |-> {}, failing |-> {},
                   repoDir |-> repoDir, scriptDir |-> scriptDir,
                   out |-> did.out, prompts |-> <<>>, ops |-> did.ops,
                   exit |-> did.exit]
  /\ UNCHANGED <<fleet, headTime, branch, record, history, deps, snapshot>>

NoRecord == <<>>

Init ==
  /\ pc = "start"
  /\ last = NoCall
  /\ fleet \in Fleets
  /\ headTime = [r \in Repos |-> 0]
  /\ branch = "develop"
  /\ record = NoRecord
  /\ history = <<>>
  /\ deps = <<>>
  /\ snapshot = {}

Next ==
  \/ MetaborgRelengUpdate
  \/ MetaborgRelengSetRemote
  \/ MetaborgRelengCleanUpdate
  \/ MetaborgRelengTrack
  \/ MetaborgRelengMerge
  \/ MetaborgRelengTag
  \/ MetaborgRelengPush
  \/ MetaborgRelengCheckout
  \/ MetaborgRelengClean
  \/ MetaborgRelengReset
  \/ MetaborgRelengSetVersions
  \/ MetaborgRelengGenMvnSettings
  \/ MetaborgRelengRelease
  \/ MetaborgRelengBootstrap
  \/ MetaborgRelengGenEclipse
  \/ MetaborgRelengGenSpoofax
  \/ MetaborgRelengGenIcons
  \/ MetaborgRelengNoCommand
  \/ MetaborgRelengNoRepository

Spec == Init /\ [][Next]_vars

----------------------------------------------------------------------------
(* Properties of the fleet commands, checked under Spec                    *)

OpNames(l) == {l.ops[i].op : i \in 1..Len(l.ops)}

AnsweredYes(l, kinds) ==
  \E i \in 1..Len(l.prompts) : l.prompts[i].kind \in kinds /\ l.prompts[i].answer

AnsweredNo(l) == \E i \in 1..Len(l.prompts) : ~l.prompts[i].answer

FleetOps == {"CheckoutAll", "ResetAll", "CleanAll", "UpdateAll", "TrackAll",
             "MergeAll", "TagAll", "PushAll", "SetRemoteAll"}

FleetCommands == {"update", "set-remote", "track", "merge", "tag", "push",
                  "checkout", "clean", "reset", "clean-update"}

\* Some repository of some fleet operation of the run has a recorded failure.
RecordedFailure(l) ==
  \E i \in 1..Len(l.ops) : \E j \in 1..Len(l.ops[i].results) : ~l.ops[i].results[j].ok

\* C1: clean, reset and clean-update invoke CleanAll / ResetAll only with
\* --yes or after YesNoTwice / YesNoTrice returned yes; when the prompt
\* returns no the command exits with 1 and has invoked no fleet operation.
C1_DestructiveOpsGated ==
  last.cmd \in {"clean", "reset", "clean-update"} =>
    /\ (OpNames(last) \cap {"CleanAll", "ResetAll"} # {}) =>
         (last.yes \/ AnsweredYes(last, {"YesNoTwice", "YesNoTrice"}))
    /\ AnsweredNo(last) => (last.exit = 1 /\ last.ops = <<>>)

C1_Witness ==
  /\ last.cmd = "clean-update"
  /\ ~last.yes
  /\ last.prompts = <<Prompt("YesNoTrice", FALSE)>>
  /\ last.exit = 1
  /\ last.ops = <<>>
  /\ Len(fleet) = NumRepos

\* The fleet operation merge, tag, push and checkout are about.
GatedOp(cmd) ==
  CASE cmd = "merge" -> "MergeAll"
    [] cmd = "tag" -> "TagAll"
    [] cmd = "push" -> "PushAll"
    [] cmd = "checkout" -> "CheckoutAll"

\* C2: merge, tag, push and checkout without --yes: a no at the gate exits
\* with 1 and the operation is never invoked; a yes invokes the operation
\* exactly once and exits with 0.
C2_GateDecides ==
  (last.cmd \in {"merge", "tag", "push", "checkout"} /\ ~last.yes) =>
    /\ Len(last.prompts) = 1
    /\ IF last.prompts[1].answer
       THEN /\ last.exit = 0
            /\ Len(last.ops) = 1
            /\ last.ops[1].op = GatedOp(last.cmd)
       ELSE /\ last.exit = 1
            /\ last.ops = <<>>

C2_Witness ==
  /\ last.cmd = "merge"
  /\ ~last.yes
  /\ last.prompts = <<Prompt("YesNo", TRUE)>>
  /\ OpNames(last) = {"MergeAll"}
  /\ last.exit = 0

\* C3: with --yes no command calls an interactive prompt, and every command
\* reaches its core operation.
C3_YesNeverPrompts ==
  last.yes => (last.prompts = <<>> /\ Len(last.ops) >= 1 /\ last.exit = 0)

\* C4: a fleet command exits with 1 when its fleet operation recorded a
\* failure for at least one repository, and with 0 only when every
\* repository succeeded.
C4_ExitReflectsFailure ==
  last.cmd \in FleetCommands =>
    /\ RecordedFailure(last) => last.exit = 1
    /\ last.exit = 0 => ~RecordedFailure(last)

\* C10: every fleet operation is attempted on every repository in fleet
\* order, whatever failed before: its result holds exactly one outcome per
\* repository of the fleet, the i-th for the i-th repository, and a
\* repository after a failing one has its own outcome.
C10_EveryRepositoryAttempted ==
  \A i \in 1..Len(last.ops) :
    last.ops[i].op \in FleetOps =>
      /\ Len(last.ops[i].results) = Len(fleet)
      /\ \A j \in 1..Len(fleet) :
           /\ last.ops[i].results[j].repo = fleet[j]
           /\ last.ops[i].results[j].ok = (fleet[j] \notin last.failing)

C10_Witness ==
  /\ last.cmd = "push"
  /\ Len(fleet) = NumRepos
  /\ NumRepos >= 3
  /\ last.failing = {fleet[2]}
  /\ Len(last.ops) = 1
  /\ Len(last.ops[1].results) = NumRepos
  /\ ~last.ops[1].results[2].ok
  /\ last.ops[1].results[3].ok

\* Directory `inner` is `outer` or lies below it.
Inside(inner, outer) ==
  /\ Len(outer) <= Len(inner)
  /\ \A i \in 1..Len(outer) : inner[i] = outer[i]

\* C11: when the directory of the script lies inside the working tree of
\* the selected repository, release exits with 1 and never invokes the
\* Release workflow; otherwise it invokes Release exactly once, with the
\* five given parameters.
C11_ReleaseRefusesOwnRepository ==
  last.cmd = "release" =>
    IF Inside(last.scriptDir, last.repoDir)
    THEN last.exit = 1 /\ last.ops = <<>>
    ELSE /\ last.ops = <<ReleaseCall("master", "develop", "1.0.0-SNAPSHOT",
                                     "1.0.0", "1.1.0-SNAPSHOT")>>
         /\ last.exit = 0

C11_Witness ==
  /\ last.cmd = "release"
  /\ last.repoDir # <<>>
  /\ Len(last.scriptDir) > Len(last.repoDir)
  /\ Inside(last.scriptDir, last.repoDir)
  /\ last.exit = 1
  /\ last.ops = <<>>

\* The last run printed one of the warnings of set-versions.
WarningShown(l) ==
  \E i \in 1..Len(l.out) :
    l.out[i] \in {"WARNING: This will CHANGE and COMMIT pom.xml, MANIFEST.MF, and feature.xml files, do you want to continue?",
                  "WARNING: This will CHANGE pom.xml, MANIFEST.MF, and feature.xml files, do you want to continue?"}

\* C12: set-versions without --dryrun and without --yes invokes
\* SetVersions only after it showed the warning and the user answered yes,
\* and a no exits with 1 without invoking it, with and without --commit;
\* with --dryrun no prompt is issued and SetVersions is invoked with dryRun
\* set.
C12_SetVersionsGated ==
  last.cmd = "set-versions" =>
    /\ ("dryrun" \notin last.flags /\ ~last.yes) =>
         /\ "SetVersions" \in OpNames(last) =>
              (WarningShown(last) /\ AnsweredYes(last, {"YesNo"}))
         /\ AnsweredNo(last) => (last.exit = 1 /\ last.ops = <<>>)
    /\ "dryrun" \in last.flags =>
         /\ last.prompts = <<>>
         /\ Len(last.ops) = 1
         /\ last.ops[1].op = "SetVersions"
         /\ last.ops[1].params[4] = TRUE

\* C13: clean-update, once confirmed or with --yes, applies CheckoutAll,
\* ResetAll(toRemote = true), CheckoutAll, CleanAll, UpdateAll(depth) in
\* this order, each over the whole fleet before the next one starts: the
\* reset to the remote branch precedes the clean and the update is last.
C13_CleanUpdateOrder ==
  (last.cmd = "clean-update"
     /\ (last.yes \/ AnsweredYes(last, {"YesNoTrice"}))) =>
    /\ [i \in 1..Len(last.ops) |-> last.ops[i].op] =
         <<"CheckoutAll", "ResetAll", "CheckoutAll", "CleanAll", "UpdateAll">>
    /\ last.ops[2].params = <<TRUE>>
    /\ last.ops[5].params = <<IF "depth" \in last.flags THEN <<1>> ELSE NoDepth>>
    /\ \A i \in 1..Len(last.ops) :
         [j \in 1..Len(last.ops[i].results) |-> last.ops[i].results[j].repo] = fleet

C13_Witness ==
  /\ last.cmd = "clean-update"
  /\ ~last.yes
  /\ last.prompts = <<Prompt("YesNoTrice", TRUE)>>
  /\ "depth" \in last.flags
  /\ Len(fleet) = NumRepos
  /\ Len(last.ops) = 5
  /\ last.ops[5].op = "UpdateAll"
  /\ last.exit = 0

----------------------------------------------------------------------------
(* The qualifier engine and the qualifier / changed commands               *)

Branches == {"develop", "release"}

Times == 0..MaxTime

FullFleet == [i \in 1..NumRepos |-> i]

MaxOf(S) == CHOOSE x \in S : \A y \in S : y <= x

\* A timestamp as a fixed-width, sortable string of digits.
FormatTime(t) == <<(t \div 10) % 10, t % 10>>

\* Branch of the root repository, then the latest commit date of the fleet.
create_qualifier(fl, times, br) ==
  <<br>> \o FormatTime(MaxOf({times[r] : r \in Range(fl)}))

Qualifiers == {<<br>> \o FormatTime(t) : br \in Branches, t \in Times}

\* repo_changed(repo, destination): compare the current qualifier with the
\* persisted one (an absent record differs from every qualifier) and, when
\* they differ, overwrite the record.
\* (repo_changed_keeps_record never writes: C6 has to tell the two apart.)
repo_changed_keeps_record(fl, times, br, rec) ==
  LET qualifier == create_qualifier(fl, times, br)
  IN [changed |-> rec # qualifier, qualifier |-> qualifier, record |-> rec]

repo_changed(fl, times, br, rec) ==
  LET qualifier == create_qualifier(fl, times, br)
      changed == rec # qualifier
  IN [changed |-> changed, qualifier |-> qualifier,
      record |-> IF changed THEN qualifier ELSE rec]

\* changed: main() after repo_changed returned (changed, qualifier)
\* (ChangedMainIgnoresForce tests `changed` alone: C5 has to tell the two
\* apart.)
ChangedMainIgnoresForce(forceChange, changed, qualifier) ==
  IF changed
  THEN Did(<<qualifier>>, <<>>, <<>>, 0)
  ELSE Did(<<>>, <<>>, <<>>, 1)

ChangedMain(forceChange, changed, qualifier) ==
  IF forceChange \/ changed
  THEN Did(<<qualifier>>, <<>>, <<>>, 0)
  ELSE Did(<<>>, <<>>, <<>>, 1)

\* (MetaborgRelengChangedForceSkipsCheck is changed with the call of
\* repo_changed skipped under --force-change, so that the record stays as it
\* was: C14 has to tell the two apart.)
MetaborgRelengChangedForceSkipsCheck ==
  /\ Len(history) < MaxCalls
  /\ \E forceChange \in BOOLEAN :
       LET r == IF forceChange
                THEN repo_changed_keeps_record(fleet, headTime, branch, record)
                ELSE repo_changed(fleet, headTime, branch, record)
           did == ChangedMain(forceChange, r.changed, r.qualifier)
           call == [force |-> forceChange, before |-> record, changed |-> r.changed,
                    qualifier |-> r.qualifier, after |-> r.record, exit |-> did.exit]
       IN /\ record' = r.record
          /\ history' = Append(history, call)
          /\ last' = [cmd |-> "changed", yes |-> FALSE,
                      flags |-> Flag(forceChange, "force-change"), failing |-> {},
                      out |-> did.out, prompts |-> <<>>,
                      ops |-> <<[op |-> "repo_changed", params |-> <<".qualifier">>,
                                 results |-> <<call>>]>>,
                      exit |-> did.exit]
  /\ pc' = "exited"
  /\ UNCHANGED <<fleet, headTime, branch, deps, snapshot>>

\* A process may be started once the previous one has exited.
MetaborgRelengChanged ==
  /\ Len(history) < MaxCalls
  /\ \E forceChange \in BOOLEAN :
       LET r == repo_changed(fleet, headTime, branch, record)
           did == ChangedMain(forceChange, r.changed, r.qualifier)
           call == [force |-> forceChange, before |-> record, changed |-> r.changed,
                    qualifier |-> r.qualifier, after |-> r.record, exit |-> did.exit]
       IN /\ record' = r.record
          /\ history' = Append(history, call)
          /\ last' = [cmd |-> "changed", yes |-> FALSE,
                      flags |-> Flag(forceChange, "force-change"), failing |-> {},
                      out |-> did.out, prompts |-> <<>>,
                      ops |-> <<[op |-> "repo_changed", params |-> <<".qualifier">>,
                                 results |-> <<call>>]>>,
                      exit |-> did.exit]
  /\ pc' = "exited"
  /\ UNCHANGED <<fleet, headTime, branch, deps, snapshot>>

\* qualifier: prints create_qualifier(repo); main() returns None, status 0
MetaborgRelengQualifier ==
  /\ last' = [cmd |-> "qualifier", yes |-> FALSE, flags |-> {}, failing |-> {},
              out |-> <<create_qualifier(fleet, headTime, branch)>>,
              prompts |-> <<>>, ops |-> <<>>, exit |-> 0]
  /\ pc' = "exited"
  /\ UNCHANGED <<fleet, headTime, branch, record, history, deps, snapshot>>

\* The fleet is mutated between two runs: a repository gets a later commit.
Commit ==
  \E r \in Range(fleet) :
    /\ headTime[r] < MaxTime
    /\ headTime' = [headTime EXCEPT ![r] = @ + 1]
    /\ history' = <<>>
    /\ UNCHANGED <<pc, last, fleet, branch, record, deps, snapshot>>

\* The fleet is mutated between two runs: the root changes branch.
SwitchBranch ==
  \E br \in Branches \ {branch} :
    /\ branch' = br
    /\ history' = <<>>
    /\ UNCHANGED <<pc, last, fleet, headTime, record, deps, snapshot>>

InitChanged ==
  /\ pc = "start"
  /\ last = NoCall
  /\ fleet = FullFleet
  /\ headTime \in [Repos -> Times]
  /\ branch \in Branches
  /\ record \in {NoRecord} \cup Qualifiers
  /\ history = <<>>
  /\ deps = <<>>
  /\ snapshot = {}

NextChanged ==
  \/ MetaborgRelengChanged
  \/ MetaborgRelengQualifier
  \/ Commit
  \/ SwitchBranch

SpecChanged == InitChanged /\ [][NextChanged]_vars

\* The repo_changed call of the last run of `changed`.
LastCheck == last.ops[1].results[1]

\* C5: changed returns 0 and prints the current qualifier when the
\* repository changed since the last invocation (the record differs from
\* the current qualifier) or --force-change is given; otherwise it returns
\* 1 and prints nothing. With --force-change it returns 0 whatever the
\* record holds.
C5_ChangedExitStatus ==
  last.cmd = "changed" =>
    IF "force-change" \in last.flags \/ LastCheck.before # LastCheck.qualifier
    THEN last.exit = 0 /\ last.out = <<LastCheck.qualifier>>
    ELSE last.exit = 1 /\ last.out = <<>>

C5_Witness ==
  /\ last.cmd = "changed"
  /\ "force-change" \in last.flags
  /\ LastCheck.before = LastCheck.qualifier
  /\ last.exit = 0
  /\ last.out = <<create_qualifier(fleet, headTime, branch)>>

\* C6: after a completed repo_changed call the record equals the current
\* qualifier; of the calls made with no fleet mutation in between at most
\* the first returns changed, and every later one returns (false, q) with
\* the same q and leaves the record as it was.
C6_AtMostOnceTransition ==
  /\ Len(history) >= 1 => record = create_qualifier(fleet, headTime, branch)
  /\ \A i \in 1..Len(history) :
       /\ history[i].after = history[i].qualifier
       /\ i > 1 => /\ ~history[i].changed
                   /\ history[i].qualifier = history[1].qualifier
                   /\ history[i].after = history[i].before

C6_Witness ==
  /\ Len(history) >= 2
  /\ history[1].changed
  /\ history[1].before # NoRecord
  /\ ~history[2].changed

\* C14: --force-change skips neither the change check nor its side effect:
\* a forced run computes the qualifier and leaves it in the record, also
\* when the record differed, so the un-forced run that follows it on an
\* unchanged fleet exits with 1.
C14_ForceStillRecords ==
  \A i \in 1..Len(history) :
    history[i].force =>
      /\ history[i].qualifier = create_qualifier(fleet, headTime, branch)
      /\ history[i].changed = (history[i].before # history[i].qualifier)
      /\ history[i].after = history[i].qualifier
      /\ (i < Len(history) /\ ~history[i + 1].force) => history[i + 1].exit = 1

C14_Witness ==
  /\ Len(history) >= 2
  /\ history[1].force
  /\ history[1].before # history[1].qualifier
  /\ history[1].exit = 0
  /\ ~history[2].force
  /\ history[2].exit = 1
  /\ last.out = <<>>

----------------------------------------------------------------------------
(* The build graph orchestrator and the build command                      *)

\* Build targets, in declaration order.
Targets == 1..NumTargets

MinOf(S) == CHOOSE x \in S : \A y \in S : x <= y

\* The targets of S and everything they depend on, directly or not.
RECURSIVE Closure(_, _)
Closure(d, S) ==
  LET next == S \cup UNION {d[t] : t \in S}
  IN IF next = S THEN S ELSE Closure(d, next)

\* No target depends on itself, directly or not.
Acyclic(d) == \A t \in DOMAIN d : t \notin Closure(d, d[t])

DependencyGraphs == {d \in [Targets -> SUBSET Targets] : Acyclic(d)}

\* Resolution: the transitive closure of the requested targets when
\* dependencies are built, the requested targets alone otherwise.
Resolve(d, buildDeps, requested) ==
  IF buildDeps THEN Closure(d, requested) ELSE requested

\* Topological order; among the targets with no unresolved dependency left
\* the one declared first goes first.
RECURSIVE TopoOrder(_, _)
TopoOrder(d, remaining) ==
  IF remaining = {} THEN <<>>
  ELSE LET ready == {t \in remaining : d[t] \cap remaining = {}}
           pick == MinOf(ready)
       IN <<pick>> \o TopoOrder(d, remaining \ {pick})

NoError == <<>>

\* The message a failing backend of target t reports.
Diagnostic(t) == <<"BUILD FAILURE", t>>

\* The backends of the targets in order, one by one, up to and including
\* the first that fails.
RECURSIVE InvokeAll(_, _)
InvokeAll(order, failing) ==
  IF order = <<>> THEN <<>>
  ELSE IF Head(order) \in failing
       THEN <<[target |-> Head(order), ok |-> FALSE]>>
       ELSE <<[target |-> Head(order), ok |-> TRUE]>> \o InvokeAll(Tail(order), failing)

\* builder.build(*components): raises RuntimeError(error) unless error is
\* NoError. In release mode every resolved target must have a release
\* version before any backend is invoked.
Build(d, snap, buildDeps, release, components, failing) ==
  LET resolved == Resolve(d, buildDeps, components)
      order == TopoOrder(d, resolved)
  IN IF release /\ resolved \cap snap # {}
     THEN [invoked |-> <<>>,
           error |-> <<"non-release dependency", MinOf(resolved \cap snap)>>]
     ELSE LET invoked == InvokeAll(order, failing)
          IN [invoked |-> invoked,
              error |-> IF invoked # <<>> /\ ~invoked[Len(invoked)].ok
                        THEN Diagnostic(invoked[Len(invoked)].target)
                        ELSE NoError]

BackendCalls(invoked) ==
  [i \in 1..Len(invoked) |->
     [op |-> "backend", params |-> <<invoked[i].target>>, results |-> <<invoked[i]>>]]

\* build: main(*components)
NoComponents ==
  Did(<<"No components specified, pass one or more of the following components to build:",
        Targets>>, <<>>, <<>>, 1)

\* Three faulty variants of BuildMain: buildDeps=noDeps (C7), builder.release
\* left unset (C8), the RuntimeError swallowed (C9).
BuildMainDepsInverted(d, snap, noDeps, release, components, failing) ==
  IF components = {}
  THEN NoComponents
  ELSE LET r == Build(d, snap, noDeps, release, components, failing)
       IN IF r.error = NoError
          THEN Did(<<>>, <<>>, BackendCalls(r.invoked), 0)
          ELSE Did(<<r.error>>, <<>>, BackendCalls(r.invoked), 1)

BuildMainReleaseNotSet(d, snap, noDeps, release, components, failing) ==
  IF components = {}
  THEN NoComponents
  ELSE LET r == Build(d, snap, ~noDeps, FALSE, components, failing)
       IN IF r.error = NoError
          THEN Did(<<>>, <<>>, BackendCalls(r.invoked), 0)
          ELSE Did(<<r.error>>, <<>>, BackendCalls(r.invoked), 1)

BuildMainSwallowsError(d, snap, noDeps, release, components, failing) ==
  IF components = {}
  THEN NoComponents
  ELSE LET r == Build(d, snap, ~noDeps, release, components, failing)
       IN Did(<<>>, <<>>, BackendCalls(r.invoked), 0)

BuildMain(d, snap, noDeps, release, components, failing) ==
  IF components = {}
  THEN NoComponents
  ELSE LET r == Build(d, snap, ~noDeps, release, components, failing)
       IN IF r.error = NoError
          THEN Did(<<>>, <<>>, BackendCalls(r.invoked), 0)
          ELSE Did(<<r.error>>, <<>>, BackendCalls(r.invoked), 1)

\* The backends that fail in a run: none, or the backend of one target.
BackendFailures == {f \in SUBSET Targets : Cardinality(f) <= 1}

MetaborgRelengBuild ==
  /\ pc = "start"
  /\ pc' = "exited"
  /\ \E noDeps \in BOOLEAN, release \in BOOLEAN, components \in SUBSET Targets,
        failing \in BackendFailures :
       LET did == BuildMain(deps, snapshot, noDeps, release, components, failing)
       IN last' = [cmd |-> "build", yes |-> FALSE,
                   flags |-> Flag(noDeps, "no-deps") \cup Flag(release, "release"),
                   failing |-> failing, components |-> components,
                   out |-> did.out, prompts |-> <<>>, ops |-> did.ops,
                   exit |-> did.exit]
  /\ UNCHANGED <<fleet, headTime, branch, record, history, deps, snapshot>>

InitBuild ==
  /\ pc = "start"
  /\ last = NoCall
  /\ fleet = FullFleet
  /\ headTime = [r \in Repos |-> 0]
  /\ branch = "develop"
  /\ record = NoRecord
  /\ history = <<>>
  /\ deps \in DependencyGraphs
  /\ snapshot \in SUBSET Targets

NextBuild == MetaborgRelengBuild

SpecBuild == InitBuild /\ [][NextBuild]_vars


\* The targets the last build invoked a backend for, in the order of the calls.
Invoked == [i \in 1..Len(last.ops) |-> last.ops[i].params[1]]

\* Target a depends on target b through at most n dependency edges.
RECURSIVE DependsOn(_, _, _, _)
DependsOn(d, a, b, n) ==
  \/ b \in d[a]
  \/ n > 1 /\ \E c \in d[a] : DependsOn(d, c, b, n - 1)

\* The targets the last build has to execute.
Expected ==
  IF "no-deps" \in last.flags
  THEN last.components
  ELSE last.components \cup
       {b \in Targets : \E a \in last.components : DependsOn(deps, a, b, NumTargets)}

\* The last build was stopped neither by the release validation nor by a
\* failing backend.
Unhindered ==
  /\ last.failing \cap Expected = {}
  /\ ~("release" \in last.flags /\ snapshot \cap Expected # {})

\* C7: no target is executed twice; with dependency building every target
\* is executed after all of its dependencies, and a build that nothing
\* stops executes exactly the transitive closure of the requested targets;
\* with --no-deps it executes exactly the requested targets.
C7_BuildOrder ==
  (last.cmd = "build" /\ last.components # {}) =>
    /\ \A i, j \in 1..Len(Invoked) : Invoked[i] = Invoked[j] => i = j
    /\ Range(Invoked) \subseteq Expected
    /\ Unhindered => Range(Invoked) = Expected
    /\ "no-deps" \notin last.flags =>
         \A i \in 1..Len(Invoked) : \A t \in deps[Invoked[i]] :
           \E j \in 1..(i - 1) : Invoked[j] = t

C7_Witness ==
  /\ last.cmd = "build"
  /\ "no-deps" \notin last.flags
  /\ Cardinality(last.components) = 2
  /\ \E t \in Targets \ last.components :
       \A a \in last.components : t \in deps[a]
  /\ Len(Invoked) = 3
  /\ last.exit = 0

\* C8: in a release build with a snapshot version among the resolved
\* targets no backend is invoked and the command exits with 1.
C8_ReleaseValidation ==
  (last.cmd = "build" /\ last.components # {} /\ "release" \in last.flags
     /\ snapshot \cap Expected # {}) =>
    /\ last.ops = <<>>
    /\ last.exit = 1

C8_Witness ==
  /\ last.cmd = "build"
  /\ "release" \in last.flags
  /\ "no-deps" \notin last.flags
  /\ snapshot \cap last.components = {}
  /\ snapshot \cap Expected # {}
  /\ last.ops = <<>>
  /\ last.exit = 1

\* C9: a failing backend is the last one invoked, its diagnostic is what
\* the command prints, and the command exits with 1; the command exits
\* with 0 only if every target of the order was executed without failure.
C9_FailFast ==
  last.cmd = "build" =>
    /\ \A i \in 1..Len(last.ops) :
         /\ last.ops[i].results[1].ok = (Invoked[i] \notin last.failing)
         /\ ~last.ops[i].results[1].ok =>
              /\ i = Len(last.ops)
              /\ last.out = <<Diagnostic(Invoked[i])>>
              /\ last.exit = 1
    /\ last.exit = 0 =>
         /\ last.components # {}
         /\ Range(Invoked) = Expected
         /\ \A i \in 1..Len(last.ops) : last.ops[i].results[1].ok

C9_Witness ==
  /\ last.cmd = "build"
  /\ Cardinality(Expected) = 3
  /\ Len(last.ops) = 2
  /\ ~last.ops[2].results[1].ok
  /\ last.out = <<Diagnostic(Invoked[2])>>
  /\ last.exit = 1

====
